---- MODULE Spec2Model ----
(***************************************************************************)
(* Model of rename_files.py: get_new_filename (a regular-expression split  *)
(* and join), rename_file (os.rename behind a try/except) and rename_files *)
(* (the recursive directory walk that threads a counter).                  *)
(*                                                                         *)
(* A character is a one-character string, a name is a sequence of          *)
(* characters, a path is a sequence of names below the file system root.   *)
(***************************************************************************)
EXTENDS Integers, Sequences, FiniteSets, TLC

\* Longest name drawn for the transformer specification SpecT.
MaxLen == 3

\* Largest number of entries below the root in an initial tree of Spec.
MaxEntries == 3

----------------------------------------------------------------------------
(* Characters, names and tokens                                            *)

Alphabet == {"a", "b", " ", "\t", "."}

\* The characters the regular expression class \s matches.
Whitespace == {" ", "\t"}

RECURSIVE SeqsUpTo(_, _)
SeqsUpTo(S, n) ==
    IF n = 0 THEN {<<>>}
    ELSE LET shorter == SeqsUpTo(S, n - 1)
         IN  shorter \cup {Append(w, c) : w \in shorter, c \in S}

\* The names drawn for SpecT: a file name is not empty.
Names == SeqsUpTo(Alphabet, MaxLen) \ {<<>>}

SearchPool == {<<" ">>, <<"a">>, <<"a", "a">>, <<"a", "b">>, <<".">>, <<"\t">>}

ReplacePool == {<<>>, <<"_">>, <<"a">>, <<"a", "a">>, <<"b", "a", "b">>}

\* Python's `search in file` on strings: search occurs as a substring.
Contains(file, search) ==
    \E i \in 1..(Len(file) - Len(search) + 1) :
        SubSeq(file, i, i + Len(search) - 1) = search

----------------------------------------------------------------------------
(* get_new_filename                                                        *)

\* A pattern is a sequence of atoms: a literal character, the wildcard `.`,
\* or the repetition \s+ .
Lit(c) == [kind |-> "lit", ch |-> c]
AnyChar == [kind |-> "any", ch |-> "."]
SpacePlus == [kind |-> "ws+", ch |-> " "]

\* re.compile of the search token taken as it is: `.` is a metacharacter.
re_raw(search) ==
    [i \in 1..Len(search) |-> IF search[i] = "." THEN AnyChar ELSE Lit(search[i])]

\* re.escape(search): every character stands for itself.
re_escape(search) == [i \in 1..Len(search) |-> Lit(search[i])]

\* Lines 110-114: the pattern get_new_filename builds from search.
regex(search) == IF search = <<" ">> THEN <<SpacePlus>> ELSE re_escape(search)

AtomMatches(atom, c) ==
    \/ atom.kind = "any"
    \/ atom.kind = "lit" /\ atom.ch = c

RECURSIVE SpaceRun(_, _)
\* Length of the longest run of whitespace of name that starts at position i.
SpaceRun(name, i) ==
    IF i <= Len(name) /\ name[i] \in Whitespace THEN 1 + SpaceRun(name, i + 1) ELSE 0

\* Length of the match of pattern in name at position i, 0 when there is none
\* (the patterns built here never match the empty string).
MatchLen(pattern, name, i) ==
    IF pattern = <<SpacePlus>> THEN SpaceRun(name, i)
    ELSE IF /\ i + Len(pattern) - 1 <= Len(name)
            /\ \A k \in 1..Len(pattern) : AtomMatches(pattern[k], name[i + k - 1])
         THEN Len(pattern)
         ELSE 0

RECURSIVE SplitFrom(_, _, _, _)
\* re.split scanning name from position i with the piece cur collected so far.
SplitFrom(pattern, name, i, cur) ==
    IF i > Len(name) THEN <<cur>>
    ELSE LET m == MatchLen(pattern, name, i)
         IN  IF m > 0
             THEN <<cur>> \o SplitFrom(pattern, name, i + m, <<>>)
             ELSE SplitFrom(pattern, name, i + 1, Append(cur, name[i]))

\* A split that stops after the first match (re.split with maxsplit=1).
re_split_first(pattern, name) ==
    LET hits == {i \in 1..Len(name) :
                    /\ MatchLen(pattern, name, i) > 0
                    /\ \A j \in 1..(i - 1) : MatchLen(pattern, name, j) = 0}
    IN  IF hits = {} THEN <<name>>
        ELSE LET i == CHOOSE h \in hits : TRUE
             IN  <<SubSeq(name, 1, i - 1),
                   SubSeq(name, i + MatchLen(pattern, name, i), Len(name))>>

\* re.split(regex, filename): the pieces of name between the non-overlapping
\* matches of pattern, found left to right.
re_split(pattern, name) == SplitFrom(pattern, name, 1, <<>>)

RECURSIVE str_join(_, _)
\* replace.join(filename_parts)
str_join(replace, parts) ==
    IF Len(parts) = 0 THEN <<>>
    ELSE IF Len(parts) = 1 THEN parts[1]
    ELSE parts[1] \o replace \o str_join(replace, Tail(parts))

get_new_filename(filename, search, replace) ==
    str_join(replace, re_split(regex(search), filename))

----------------------------------------------------------------------------
(* The file system                                                         *)

Ids == 0..MaxEntries

\* The root directory is the first entry; NoId is no entry.
Root == CHOOSE i \in Ids : \A j \in Ids : i <= j
NoId == Root - 1

\* An entry that does not exist (never created, or replaced by a rename).
Absent == [parent |-> NoId, name |-> <<>>, kind |-> "none"]

Children(f, d) == {i \in Ids \ {Root} : f[i].kind # "none" /\ f[i].parent = d}

\* The entry of directory d called name, NoId when there is none.
Lookup(f, d, name) ==
    LET hit == {i \in Children(f, d) : f[i].name = name}
    IN  IF hit = {} THEN NoId ELSE CHOOSE i \in hit : TRUE

RECURSIVE PathOf(_, _)
\* The absolute path of entry id, as the names from the root down.
PathOf(f, id) ==
    IF id = Root THEN <<>> ELSE Append(PathOf(f, f[id].parent), f[id].name)

RECURSIVE ResolveFrom(_, _, _)
ResolveFrom(f, d, path) ==
    IF path = <<>> THEN d
    ELSE LET next == Lookup(f, d, Head(path))
         IN  IF next = NoId THEN NoId ELSE ResolveFrom(f, next, Tail(path))

\* The entry an absolute path names, NoId when a component is missing.
Resolve(f, path) == ResolveFrom(f, Root, path)

\* os.path.isdir(file) and os.path.isfile(file), relative to the working directory.
os_path_isdir(f, wd, file) ==
    Lookup(f, wd, file) # NoId /\ f[Lookup(f, wd, file)].kind = "dir"

os_path_isfile(f, wd, file) ==
    Lookup(f, wd, file) # NoId /\ f[Lookup(f, wd, file)].kind = "file"

\* os.path.join(os.getcwd(), file)
os_path_join(f, wd, file) == Append(PathOf(f, wd), file)

\* The file system after entry src of directory wd takes the name new,
\* replacing the entry dst when dst # NoId.
Renamed(f, src, new, dst) ==
    [i \in Ids |-> IF i = src THEN [f[i] EXCEPT !.name = new]
                   ELSE IF i = dst THEN Absent
                   ELSE f[i]]

\* os.rename(old, new) in working directory wd: the outcomes the operating
\* system can produce.  The call can always fail (permission denied).  It can
\* succeed when new is a usable name and either names nothing, names the
\* source itself, or (POSIX) names a file replaced by a file or an empty
\* directory replaced by a directory; the replaced entry is gone.
os_rename(f, wd, old, new) ==
    LET src == Lookup(f, wd, old)
        dst == Lookup(f, wd, new)
        failure == [ok |-> FALSE, fs |-> f, gone |-> NoId]
        canSucceed ==
            /\ src # NoId
            /\ new \notin {<<>>, <<".">>, <<".", ".">>}
            /\ \/ dst = NoId
               \/ dst = src
               \/ f[src].kind = "file" /\ f[dst].kind = "file"
               \/ f[src].kind = "dir" /\ f[dst].kind = "dir" /\ Children(f, dst) = {}
        gone == IF dst = src THEN NoId ELSE dst
    IN  {failure} \cup
        IF canSucceed
        THEN {[ok |-> TRUE, fs |-> Renamed(f, src, new, gone), gone |-> gone]}
        ELSE {}

\* rename_file: True when os.rename succeeded, False when it raised.
rename_file(f, wd, old_filename, new_filename) ==
    os_rename(f, wd, old_filename, new_filename)

----------------------------------------------------------------------------
(* rename_files                                                            *)

VARIABLES
    fs,          \* the file system: entry id -> [parent, name, kind]
    cwd,         \* the process's working directory (an entry id)
    req,         \* the arguments of the top-level call
    stack,       \* the active calls of rename_files, innermost last
    pc,          \* "run", "done" (the top-level call returned) or "raised"
    result,      \* the value the top-level call returned
    last,        \* the step taken last: [op, ok, id]
    fs0,         \* the file system when the run started
    succ,        \* how many os.rename calls have succeeded
    renames,     \* entry id -> successful renames applied to that entry
    failed,      \* entries with a failed rename attempt
    visited,     \* directories entered by os.chdir
    denied,      \* TRUE once the operating system refused access to an existing directory
    tName, tSearch, tReplace,   \* SpecT: the arguments of get_new_filename
    tOnce, tTwice,              \* SpecT: the first and the second application
    tpc                         \* SpecT: "init", "once" or "twice"

walkVars == <<fs, cwd, req, stack, pc, result, last, fs0, succ, renames, failed,
              visited, denied>>
transVars == <<tName, tSearch, tReplace, tOnce, tTwice, tpc>>
vars == <<walkVars, transVars>>

\* A run: the tokens, and the names its tree takes its entries' names from.
Scenarios == {
    [search |-> <<" ">>, replace |-> <<"_">>,
     names |-> << <<"a", " ", "b">>, <<"a", "_", "b">>, <<"a", "\t", "b">> >>],
    [search |-> <<"a">>, replace |-> <<"a", "a">>,
     names |-> << <<"a">>, <<"a", "a">>, <<"b">> >>],
    [search |-> <<"a">>, replace |-> <<>>,
     names |-> << <<"a">>, <<"a", "b">>, <<"b">> >>] }

\* The trees of n entries below the root, each entry i a [parent, name index,
\* kind]; entries are numbered level by level and by name within a directory,
\* so that every tree is drawn once.
Shapes(n, nNames) ==
    {t \in [1..n -> [parent : 0..(n - 1), nm : 1..nNames, kind : {"dir", "file"}]] :
        /\ \A i \in 1..n :
              /\ t[i].parent < i
              /\ t[i].parent # Root => t[t[i].parent].kind = "dir"
        /\ \A i \in 1..(n - 1) :
              \/ t[i].parent < t[i + 1].parent
              \/ t[i].parent = t[i + 1].parent /\ t[i].nm < t[i + 1].nm}

TreeOf(t, n, names) ==
    [i \in Ids |->
        IF i = Root THEN [parent |-> NoId, name |-> <<>>, kind |-> "dir"]
        ELSE IF i <= n THEN [parent |-> t[i].parent, name |-> names[t[i].nm],
                             kind |-> t[i].kind]
        ELSE Absent]

\* A name no tree holds: the root of a run against a directory that is missing.
Missing == <<"b", "b">>

\* A call of rename_files: its arguments directory and counter, and its locals.
\* `from` remembers the pending entry the call was made for.
Frame(directory, counter, from) ==
    [dir |-> directory, phase |-> "chdir", todo |-> {}, directories |-> <<>>,
     idx |-> 1, counter |-> counter, from |-> from]

NoEntry == [path |-> <<>>, id |-> NoId, old |-> <<>>, outcome |-> "none"]

WalkIdle ==
    /\ fs = [i \in Ids |-> Absent] /\ fs0 = fs /\ cwd = Root
    /\ req = [search |-> <<>>, replace |-> <<>>, sub |-> FALSE, rd |-> FALSE, counter |-> 0]
    /\ stack = <<>> /\ pc = "idle" /\ result = NoId
    /\ last = [op |-> "init", ok |-> TRUE, id |-> NoId]
    /\ succ = 0 /\ renames = [i \in Ids |-> 0] /\ failed = {} /\ visited = {}
    /\ denied = FALSE

TransIdle ==
    /\ tName = <<>> /\ tSearch = <<>> /\ tReplace = <<>>
    /\ tOnce = <<>> /\ tTwice = <<>> /\ tpc = "idle"

\* The top-level call rename_files(directory, search, replace, sub_directories,
\* rename_directories, counter) about to start on some tree.  directory is the
\* root of the tree or a path that names nothing; the tree and the flags do
\* not matter to a run of the latter kind, which is drawn once.
Init ==
    /\ TransIdle
    /\ \E sc \in Scenarios, n \in 0..MaxEntries :
         \E t \in Shapes(n, Len(sc.names)) :
            fs = TreeOf(t, n, sc.names)
            /\ \E sub \in BOOLEAN, rd \in BOOLEAN, c \in {0, 1} :
                  req = [search |-> sc.search, replace |-> sc.replace,
                         sub |-> sub, rd |-> rd, counter |-> c]
    /\ fs0 = fs
    /\ cwd = Root
    /\ \E d \in {<<>>, <<Missing>>} :
          /\ d = <<Missing>> => Children(fs, Root) = {} /\ ~req.sub /\ ~req.rd
          /\ stack = <<Frame(d, req.counter, NoEntry)>>
    /\ pc = "run"
    /\ result = NoId
    /\ last = [op |-> "init", ok |-> TRUE, id |-> NoId]
    /\ succ = 0
    /\ renames = [i \in Ids |-> 0]
    /\ failed = {}
    /\ visited = {}
    /\ denied = FALSE

Top == stack[Len(stack)]

Running(phase) == pc = "run" /\ stack # <<>> /\ Top.phase = phase

SetTop(s, frame) == [s EXCEPT ![Len(s)] = frame]

\* Line 168: a directory is renamed when asked for and its name holds search.
RenamesDirectory(rd, search, file) == rd /\ Contains(file, search)

\* A walk that lets every file through to the rename.
SkipsNothing(search, file) == FALSE

\* Lines 175-176: a file whose name does not hold search is skipped.
SkipsFile(search, file) == ~Contains(file, search)

\* A count of the rename attempts rather than of the renames.
CountedAlways(counter, ok) == counter + 1

\* Lines 170-171 and 178-179: counter += 1 when rename_file returned True.
Counted(counter, ok) == IF ok THEN counter + 1 ELSE counter

\* A walk that takes the new name whatever rename_file returned.
NameAfterAlways(file, new_filename, ok) == new_filename

\* Lines 170-172: the name the walk goes on with after an attempted rename.
NameAfter(file, new_filename, ok) == IF ok THEN new_filename ELSE file

\* `return counter`: the innermost call ends; its caller assigns the value to
\* its own counter (line 183) and goes on to the next pending directory, or
\* the top-level call hands the value to main.
Return(value) ==
    IF Len(stack) = 1
    THEN /\ stack' = <<>>
         /\ pc' = "done"
         /\ result' = value
    ELSE /\ stack' = SetTop(SubSeq(stack, 1, Len(stack) - 1),
                            [stack[Len(stack) - 1] EXCEPT !.counter = value,
                                                          !.idx = @ + 1])
         /\ UNCHANGED <<pc, result>>

\* Lines 158-159: os.chdir(directory) succeeds.
ChdirOk ==
    /\ Running("chdir")
    /\ LET d == Resolve(fs, Top.dir)
       IN  /\ d # NoId
           /\ fs[d].kind = "dir"
           /\ cwd' = d
           /\ visited' = visited \cup {d}
           /\ last' = [op |-> "chdir", ok |-> TRUE, id |-> d]
    /\ stack' = SetTop(stack, [Top EXCEPT !.phase = "listdir"])
    /\ UNCHANGED <<fs, req, pc, result, fs0, succ, renames, failed, denied>>
    /\ UNCHANGED transVars

\* Lines 160-163: os.chdir raised (the directory is missing, is no directory,
\* or access is refused); the message is printed and counter is returned.
ChdirRaises ==
    /\ Running("chdir")
    /\ LET d == Resolve(fs, Top.dir)
       IN  /\ denied' = (denied \/ (d # NoId /\ fs[d].kind = "dir"))
           /\ last' = [op |-> "chdir", ok |-> FALSE, id |-> d]
    /\ Return(Top.counter)
    /\ UNCHANGED <<fs, cwd, req, fs0, succ, renames, failed, visited>>
    /\ UNCHANGED transVars

\* Lines 165-166: os.listdir() returns the names in the working directory, in
\* no particular order (the loop below takes them in any order).
ListdirOk ==
    /\ Running("listdir")
    /\ stack' = SetTop(stack, [Top EXCEPT !.phase = "loop",
                                          !.todo = {fs[i].name : i \in Children(fs, cwd)}])
    /\ last' = [op |-> "listdir", ok |-> TRUE, id |-> cwd]
    /\ UNCHANGED <<fs, cwd, req, pc, result, fs0, succ, renames, failed, visited, denied>>
    /\ UNCHANGED transVars

\* Line 166: os.listdir() raised (a directory that can be entered but not
\* read).  No handler is around this call, here or in main: the exception
\* ends every active call and the process.
ListdirRaises ==
    /\ Running("listdir")
    /\ stack' = <<>>
    /\ pc' = "raised"
    /\ denied' = TRUE
    /\ last' = [op |-> "listdir", ok |-> FALSE, id |-> cwd]
    /\ UNCHANGED <<fs, cwd, req, result, fs0, succ, renames, failed, visited>>
    /\ UNCHANGED transVars

\* The bookkeeping of one rename attempt on entry e with outcome out.
Attempt(e, out) ==
    /\ fs' = out.fs
    /\ succ' = IF out.ok THEN succ + 1 ELSE succ
    /\ renames' = IF out.ok THEN [renames EXCEPT ![e] = @ + 1] ELSE renames
    /\ failed' = IF out.ok THEN failed ELSE failed \cup {e}
    /\ last' = [op |-> "rename", ok |-> out.ok, id |-> e]

\* Lines 167-173, the renaming branch: the entry is a directory to rename.
RenameDirectory ==
    /\ Running("loop")
    /\ \E file \in Top.todo :
         /\ os_path_isdir(fs, cwd, file)
         /\ RenamesDirectory(req.rd, req.search, file)
         /\ LET new_filename == get_new_filename(file, req.search, req.replace)
                e == Lookup(fs, cwd, file)
            IN  \E out \in rename_file(fs, cwd, file, new_filename) :
                  LET name == NameAfter(file, new_filename, out.ok)
                      entry == [path |-> os_path_join(out.fs, cwd, name), id |-> e,
                                old |-> file,
                                outcome |-> IF out.ok THEN "ok" ELSE "failed"]
                  IN  /\ Attempt(e, out)
                      /\ stack' = SetTop(stack,
                            [Top EXCEPT !.todo = @ \ {file},
                                        !.counter = Counted(@, out.ok),
                                        !.directories = Append(@, entry)])
    /\ UNCHANGED <<cwd, req, pc, result, fs0, visited, denied>>
    /\ UNCHANGED transVars

\* Lines 167-173 without the rename: the directory is only queued.
KeepDirectory ==
    /\ Running("loop")
    /\ \E file \in Top.todo :
         /\ os_path_isdir(fs, cwd, file)
         /\ ~RenamesDirectory(req.rd, req.search, file)
         /\ LET e == Lookup(fs, cwd, file)
                entry == [path |-> os_path_join(fs, cwd, file), id |-> e,
                          old |-> file, outcome |-> "none"]
            IN  /\ stack' = SetTop(stack,
                      [Top EXCEPT !.todo = @ \ {file},
                                  !.directories = Append(@, entry)])
                /\ last' = [op |-> "keep", ok |-> TRUE, id |-> e]
    /\ UNCHANGED <<fs, cwd, req, pc, result, fs0, succ, renames, failed, visited, denied>>
    /\ UNCHANGED transVars

\* Lines 174-176: a file whose name does not hold search.
SkipFile ==
    /\ Running("loop")
    /\ \E file \in Top.todo :
         /\ ~os_path_isdir(fs, cwd, file)
         /\ os_path_isfile(fs, cwd, file)
         /\ SkipsFile(req.search, file)
         /\ stack' = SetTop(stack, [Top EXCEPT !.todo = @ \ {file}])
         /\ last' = [op |-> "skip", ok |-> TRUE, id |-> Lookup(fs, cwd, file)]
    /\ UNCHANGED <<fs, cwd, req, pc, result, fs0, succ, renames, failed, visited, denied>>
    /\ UNCHANGED transVars

\* Lines 174-179: a file whose name holds search.
RenameFile ==
    /\ Running("loop")
    /\ \E file \in Top.todo :
         /\ ~os_path_isdir(fs, cwd, file)
         /\ os_path_isfile(fs, cwd, file)
         /\ ~SkipsFile(req.search, file)
         /\ LET new_filename == get_new_filename(file, req.search, req.replace)
                e == Lookup(fs, cwd, file)
            IN  \E out \in rename_file(fs, cwd, file, new_filename) :
                  /\ Attempt(e, out)
                  /\ stack' = SetTop(stack,
                        [Top EXCEPT !.todo = @ \ {file},
                                    !.counter = Counted(@, out.ok)])
    /\ UNCHANGED <<cwd, req, pc, result, fs0, visited, denied>>
    /\ UNCHANGED transVars

\* Lines 181-184: the loop is over and a pending directory is left.
MoreToRecurse ==
    /\ Top.todo = {}
    /\ req.sub
    /\ Top.idx <= Len(Top.directories)

\* Lines 182-184: the call rename_files(dir_, ..., counter) for the next
\* pending directory.
Recurse ==
    /\ Running("loop")
    /\ MoreToRecurse
    /\ LET entry == Top.directories[Top.idx]
       IN  /\ stack' = Append(stack, Frame(entry.path, Top.counter, entry))
           /\ last' = [op |-> "call", ok |-> TRUE, id |-> entry.id]
    /\ UNCHANGED <<fs, cwd, req, pc, result, fs0, succ, renames, failed, visited, denied>>
    /\ UNCHANGED transVars

\* Line 185: return counter.
ReturnCounter ==
    /\ Running("loop")
    /\ Top.todo = {}
    /\ ~MoreToRecurse
    /\ Return(Top.counter)
    /\ last' = [op |-> "return", ok |-> TRUE, id |-> cwd]
    /\ UNCHANGED <<fs, cwd, req, fs0, succ, renames, failed, visited, denied>>
    /\ UNCHANGED transVars

Next ==
    \/ ChdirOk
    \/ ChdirRaises
    \/ ListdirOk
    \/ ListdirRaises
    \/ RenameDirectory
    \/ KeepDirectory
    \/ SkipFile
    \/ RenameFile
    \/ Recurse
    \/ ReturnCounter

Spec == Init /\ [][Next]_vars

----------------------------------------------------------------------------
(* The transformer on its own                                              *)

InitT ==
    /\ WalkIdle
    /\ tName \in Names
    /\ tSearch \in SearchPool
    /\ tReplace \in ReplacePool
    /\ tOnce = <<>>
    /\ tTwice = <<>>
    /\ tpc = "init"

\* get_new_filename(name, search, replace)
Transform ==
    /\ tpc = "init"
    /\ tOnce' = get_new_filename(tName, tSearch, tReplace)
    /\ tpc' = "once"
    /\ UNCHANGED <<tName, tSearch, tReplace, tTwice>>
    /\ UNCHANGED walkVars

\* get_new_filename applied to its own result
TransformAgain ==
    /\ tpc = "once"
    /\ tTwice' = get_new_filename(tOnce, tSearch, tReplace)
    /\ tpc' = "twice"
    /\ UNCHANGED <<tName, tSearch, tReplace, tOnce>>
    /\ UNCHANGED walkVars

NextT == Transform \/ TransformAgain

SpecT == InitT /\ [][NextT]_vars

----------------------------------------------------------------------------
(* Claims about rename_files (specification Spec)                          *)

Exists0(i) == fs0[i].kind # "none"

\* The new name the walk computes for the name entry i had at the start.
NewName0(i) == get_new_filename(fs0[i].name, req.search, req.replace)

\* The files of the initial tree whose name holds search.
Matching0 == {i \in Ids : fs0[i].kind = "file" /\ Contains(fs0[i].name, req.search)}

\* A root that holds only files, whose new names differ from each other and
\* from every name in the root, walked without recursion.
C1_Case ==
    /\ ~req.sub
    /\ \A i \in Ids \ {Root} : Exists0(i) => fs0[i].kind = "file"
    /\ \A i \in Matching0 :
          /\ \A j \in Matching0 : i # j => NewName0(i) # NewName0(j)
          /\ \A j \in Ids \ {Root} : Exists0(j) => NewName0(i) # fs0[j].name

\* The run is over, the root was entered and listed, and no rename failed.
C1_CleanRun == pc = "done" /\ Root \in visited /\ failed = {}

CurCounter == IF pc = "run" THEN Top.counter ELSE result

C2_Step ==
    /\ (pc = "run" /\ pc' # "raised") => CurCounter' >= CurCounter
    /\ pc' = "done" => result' = req.counter + succ'
    /\ (pc = "run" /\ pc' = "run") =>
          /\ CurCounter' = req.counter + succ'
          /\ (last'.op \in {"skip", "keep"} \/ (last'.op = "rename" /\ ~last'.ok))
                => CurCounter' = CurCounter
          /\ \A k \in 1..(Len(stack') - 1) : stack'[k].counter <= stack'[k + 1].counter

\* C2: in every step of a run the counter does not decrease; a failed rename
\* and a skipped or merely queued entry leave it as it was; the running count
\* is the initial counter plus the renames that have succeeded so far, and so
\* is the value returned.
C2_CounterThreaded == [][C2_Step]_vars

C2_Witness ==
    /\ pc = "done"
    /\ result = req.counter + 2
    /\ req.counter = 1
    /\ failed # {}
    /\ Cardinality(visited) >= 2

\* C3: no entry is renamed twice in one run.
C3_RenamedAtMostOnce == \A i \in Ids : renames[i] <= 1

Dirs0 == {i \in Ids : fs0[i].kind = "dir"}

\* C4: a recursive run in which no existing directory refuses access enters
\* every directory of the tree whatever rename_directories is; without
\* rename_directories no directory changes and every file whose name holds
\* search has had its rename attempted (unless a rename replaced the file
\* before its turn).
C4_TraversalIgnoresFlag ==
    (pc = "done" /\ req.sub /\ Root \in visited /\ ~denied) =>
        /\ visited = Dirs0
        /\ ~req.rd =>
              /\ \A i \in Dirs0 : fs[i] = fs0[i]
              /\ \A i \in Matching0 :
                    i \in failed \/ renames[i] > 0 \/ fs[i].kind = "none"

\* C5: a directory that cannot be entered or cannot be listed does not raise
\* out of rename_files, and a run whose root cannot be entered returns the
\* counter it was given with the tree untouched.
C5_AccessFailureRecovered ==
    /\ (last.op \in {"chdir", "listdir"} /\ ~last.ok) => pc # "raised"
    /\ (pc # "run" /\ visited = {}) =>
          pc = "done" /\ result = req.counter /\ fs = fs0

\* Every active call made for a directory whose rename failed was given the
\* path its caller's directory and the directory's original name make up.
C6_RecursedUnderOriginal ==
    \A k \in 2..Len(stack) :
        stack[k].from.outcome = "failed" =>
            stack[k].dir = Append(stack[k - 1].dir, stack[k].from.old)

C6_Step ==
    /\ (last'.op = "rename" /\ ~last'.ok /\ pc = "run") =>
          /\ fs' = fs
          /\ pc' = "run"
          /\ Len(stack') = Len(stack)
          /\ fs[last'.id].kind = "dir" =>
                LET q == Top'.directories
                IN  /\ Len(q) = Len(Top.directories) + 1
                    /\ q[Len(q)].path = os_path_join(fs, cwd, fs[last'.id].name)
    /\ C6_RecursedUnderOriginal'

\* C6: a rename that fails leaves the file system as it was and the run
\* going; a directory whose rename failed is queued, and later recursed into,
\* under the path built from its original name.
C6_RenameFailureSwallowed == [][C6_Step]_vars

C6_Witness ==
    /\ pc = "run"
    /\ Len(stack) >= 2
    /\ Top.from.outcome = "failed"
    /\ Top.phase = "loop"
    /\ Top.todo # {}

\* C7: a call recurses only once every entry of its listing is processed, and
\* a call made for a queued directory that still exists is made with the path
\* that directory has at that moment.
C7_RecursesUnderCurrentPath ==
    /\ \A k \in 1..(Len(stack) - 1) : stack[k].phase = "loop" /\ stack[k].todo = {}
    /\ (pc = "run" /\ Len(stack) >= 2 /\ Top.phase = "chdir"
            /\ fs[Top.from.id].kind = "dir") =>
          PathOf(fs, Top.from.id) = Top.dir

\* C10: when the run is over every entry of the initial tree is still there,
\* under its original name or under the name get_new_filename gives it.
C10_NothingDestroyed ==
    pc = "done" =>
        \A i \in Ids : Exists0(i) =>
            /\ fs[i].kind = fs0[i].kind
            /\ fs[i].parent = fs0[i].parent
            /\ fs[i].name \in {fs0[i].name, NewName0(i)}

----------------------------------------------------------------------------
(* Claims about get_new_filename (specification SpecT)                     *)

RECURSIVE ReplaceAll(_, _, _)
\* n with the occurrences of s, taken left to right without overlap,
\* replaced by r.
ReplaceAll(n, s, r) ==
    IF Len(n) < Len(s) THEN n
    ELSE IF SubSeq(n, 1, Len(s)) = s
         THEN r \o ReplaceAll(SubSeq(n, Len(s) + 1, Len(n)), s, r)
         ELSE <<Head(n)>> \o ReplaceAll(Tail(n), s, r)

NoWhitespace(n) == \A i \in 1..Len(n) : n[i] \notin Whitespace

\* C8 as stated: a name that does not hold search comes back unchanged.
C8_AbsentTokenUnchanged ==
    (tpc # "init" /\ ~Contains(tName, tSearch)) => tOnce = tName

\* C8, amended: a name that does not hold search comes back unchanged,
\* provided that, when search is the single space, the name holds no
\* whitespace character of any kind.
C8_AbsentPatternUnchanged ==
    (/\ tpc # "init"
     /\ ~Contains(tName, tSearch)
     /\ tSearch = <<" ">> => NoWhitespace(tName)) => tOnce = tName

C8_Witness ==
    /\ tpc = "once"
    /\ tSearch = <<".">>
    /\ Len(tName) >= 2
    /\ ~Contains(tName, tSearch)
    /\ tReplace # <<>>

\* C9 as stated: for a search other than the single space the result is the
\* name with the occurrences of search replaced, and a second application
\* gives the same result only if replace does not hold search.
C9_ReplaceAndIdempotence ==
    tSearch # <<" ">> =>
        /\ tpc # "init" => tOnce = ReplaceAll(tName, tSearch, tReplace)
        /\ (tpc = "twice" /\ tTwice = tOnce) => ~Contains(tReplace, tSearch)

\* C9, amended: for a search other than the single space the result is the
\* name with the occurrences of search replaced, and a second application
\* gives the same result only if replace does not hold search, or replace
\* equals search, or search does not occur in the name.
C9_ReplaceAndIdempotenceAmended ==
    tSearch # <<" ">> =>
        /\ tpc # "init" => tOnce = ReplaceAll(tName, tSearch, tReplace)
        /\ (tpc = "twice" /\ tTwice = tOnce) =>
              \/ ~Contains(tReplace, tSearch)
              \/ tReplace = tSearch
              \/ ~Contains(tName, tSearch)

C9_Witness ==
    /\ tpc = "twice"
    /\ tSearch = <<"a", "a">>
    /\ tName = <<"a", "a", "a">>
    /\ tReplace = <<"_">>
    /\ tOnce = <<"_", "a">>
    /\ tTwice = tOnce

====
